---- MODULE Spec2Model ----
(***************************************************************************)
(* Model of the user module of fastapi_user_hexagonal:                     *)
(*   - the User entity (src/src/domain/entities/user.py): its constructor  *)
(*     and its email-shape check;                                          *)
(*   - UserUseCase.create_user                                             *)
(*     (src/src/application/usecases/user_usecase.py);                     *)
(*   - the callers' wall-clock reads around a construction                 *)
(*     (src/tests/domain/entities/test_user.py).                           *)
(*                                                                         *)
(* Optional values (Python's Optional[...]) are None == <<>> or <<v>>.     *)
(* Emails are sequences of one-character strings, so that `in` and `split` *)
(* are computed; names and identifiers are atomic strings.                 *)
(* The wall clock is assumed non-decreasing: `clock` is the latest value   *)
(* datetime.utcnow() returned, and every read returns clock + d, d >= 0.   *)
(***************************************************************************)
EXTENDS Integers, Sequences, FiniteSets, TLC

VARIABLES users, checks, calls, reads, clock

vars == <<users, checks, calls, reads, clock>>

(* ------------------------------ bounds --------------------------------- *)

\* constructions kept in one behaviour
MaxUsers == 2

\* operations (constructions, checks, create_user calls, clock reads) in one behaviour
MaxOps == 3

\* latest clock value
MaxTime == 1

\* longest email of the email specification
MaxLen == 4

(* --------------------------- Python values ----------------------------- *)

None == <<>>

Some(v) == <<v>>

Val(o) == o[1]

\* truth value of an Optional[str]: None and "" are falsy
TruthyStr(o) == o # None /\ Val(o) # ""

\* truth value of an Optional[datetime]: only None is falsy
TruthyTime(o) == o # None

Contains(s, c) == \E i \in 1..Len(s) : s[i] = c

\* index of the first occurrence of c in s, 0 when there is none
FirstIndex(s, c) ==
  IF Contains(s, c) THEN CHOOSE i \in 1..Len(s) : s[i] = c /\ \A k \in 1..(i - 1) : s[k] # c
  ELSE 0

RECURSIVE Split(_, _)
\* str.split(sep) for a one-character separator: the list of maximal pieces
Split(s, sep) ==
  IF ~Contains(s, sep) THEN <<s>>
  ELSE LET i == FirstIndex(s, sep)
       IN <<SubSeq(s, 1, i - 1)>> \o Split(SubSeq(s, i + 1, Len(s)), sep)

(* ------------------------------ inputs --------------------------------- *)

Chars == {"a", "@", "."}

RECURSIVE StringsOfLen(_)
StringsOfLen(n) ==
  IF n = 0 THEN {<<>>}
  ELSE {Append(s, c) : s \in StringsOfLen(n - 1), c \in Chars}

Strings == UNION {StringsOfLen(n) : n \in 0..MaxLen}

\* emails used by the specification of the whole module
Emails == {<<>>, <<"a", "@", ".", "a">>}

Names == {"", "Leo"}

UserIds == {None, Some(""), Some("123")}

\* values str(uuid.uuid4()) can return: two of the 2^122 random identifiers
UUIDs == {"uuid-1", "uuid-2"}

ExplicitTimes == {None, Some(1)}

Ages == {0, 30}

UseCases == {1, 2}

\* time that can pass before a clock read
Delays == {0, 1}

(* ------------------------------- User ---------------------------------- *)

InitParams == {"user_id", "name", "email", "created_at", "updated_at"}

Defaults ==
  [user_id |-> None, name |-> "", email |-> <<>>, created_at |-> None, updated_at |-> None]

\* variant: the empty string counts as a supplied identifier (`is None` for `or`)
User__init__NoneOnly(a, now, env) ==
  LET gen == a.user_id = None
      r1  == ~TruthyTime(a.created_at)
      t1  == IF r1 THEN now + env.d1 ELSE now
      r2  == ~TruthyTime(a.updated_at)
      t2  == IF r2 THEN t1 + env.d2 ELSE t1
  IN [self  |-> [user_id    |-> IF gen THEN env.uuid4 ELSE Val(a.user_id),
                 name       |-> a.name,
                 email      |-> a.email,
                 created_at |-> IF r1 THEN t1 ELSE Val(a.created_at),
                 updated_at |-> IF r2 THEN t2 ELSE Val(a.updated_at)],
      uuids |-> IF gen THEN 1 ELSE 0,
      reads |-> (IF r1 THEN 1 ELSE 0) + (IF r2 THEN 1 ELSE 0),
      clock |-> t2]

\* variant: the identifier is generated whether or not one is supplied
User__init__AlwaysGenerates(a, now, env) ==
  LET r1  == ~TruthyTime(a.created_at)
      t1  == IF r1 THEN now + env.d1 ELSE now
      r2  == ~TruthyTime(a.updated_at)
      t2  == IF r2 THEN t1 + env.d2 ELSE t1
  IN [self  |-> [user_id    |-> env.uuid4,
                 name       |-> a.name,
                 email      |-> a.email,
                 created_at |-> IF r1 THEN t1 ELSE Val(a.created_at),
                 updated_at |-> IF r2 THEN t2 ELSE Val(a.updated_at)],
      uuids |-> 1,
      reads |-> (IF r1 THEN 1 ELSE 0) + (IF r2 THEN 1 ELSE 0),
      clock |-> t2]

\* variant: the default timestamps are computed once, when the module is loaded
\* (time 0), as a default argument `created_at=datetime.utcnow()` would be
User__init__LoadTimeDefault(a, now, env) ==
  LET gen == ~TruthyStr(a.user_id)
      r1  == ~TruthyTime(a.created_at)
      r2  == ~TruthyTime(a.updated_at)
  IN [self  |-> [user_id    |-> IF gen THEN env.uuid4 ELSE Val(a.user_id),
                 name       |-> a.name,
                 email      |-> a.email,
                 created_at |-> IF r1 THEN 0 ELSE Val(a.created_at),
                 updated_at |-> IF r2 THEN 0 ELSE Val(a.updated_at)],
      uuids |-> IF gen THEN 1 ELSE 0,
      reads |-> 0,
      clock |-> now]

\* variant: updated_at is assigned before created_at
User__init__UpdatedFirst(a, now, env) ==
  LET gen == ~TruthyStr(a.user_id)
      r2  == ~TruthyTime(a.updated_at)
      t2  == IF r2 THEN now + env.d2 ELSE now
      r1  == ~TruthyTime(a.created_at)
      t1  == IF r1 THEN t2 + env.d1 ELSE t2
  IN [self  |-> [user_id    |-> IF gen THEN env.uuid4 ELSE Val(a.user_id),
                 name       |-> a.name,
                 email      |-> a.email,
                 created_at |-> IF r1 THEN t1 ELSE Val(a.created_at),
                 updated_at |-> IF r2 THEN t2 ELSE Val(a.updated_at)],
      uuids |-> IF gen THEN 1 ELSE 0,
      reads |-> (IF r1 THEN 1 ELSE 0) + (IF r2 THEN 1 ELSE 0),
      clock |-> t1]

\* User.__init__ on bound arguments a, with the clock at `now`; env holds what
\* the environment would answer: the identifier uuid4 returns and the time
\* that passes before each clock read.  Returns the object and the calls made.
User__init__(a, now, env) ==
  LET gen == ~TruthyStr(a.user_id)
      r1  == ~TruthyTime(a.created_at)
      t1  == IF r1 THEN now + env.d1 ELSE now
      r2  == ~TruthyTime(a.updated_at)
      t2  == IF r2 THEN t1 + env.d2 ELSE t1
  IN [self  |-> [user_id    |-> IF gen THEN env.uuid4 ELSE Val(a.user_id),
                 name       |-> a.name,
                 email      |-> a.email,
                 created_at |-> IF r1 THEN t1 ELSE Val(a.created_at),
                 updated_at |-> IF r2 THEN t2 ELSE Val(a.updated_at)],
      uuids |-> IF gen THEN 1 ELSE 0,
      reads |-> (IF r1 THEN 1 ELSE 0) + (IF r2 THEN 1 ELSE 0),
      clock |-> t2]

\* variant: the constructor validates name and email and raises on a bad one
UserCallValidating(kw, a, now, env) ==
  IF kw \subseteq InitParams /\ a.name # "" /\ Contains(a.email, "@")
  THEN LET r == User__init__(a, now, env)
       IN [outcome |-> "ok", obj |-> Some(r.self), uuids |-> r.uuids,
           reads |-> r.reads, clock |-> r.clock]
  ELSE [outcome |-> IF kw \subseteq InitParams THEN "ValueError" ELSE "TypeError",
        obj |-> None, uuids |-> 0, reads |-> 0, clock |-> now]

\* the call User(**kw): Python binds the keywords to __init__'s parameters and
\* raises TypeError on a keyword __init__ does not have
UserCall(kw, a, now, env) ==
  IF kw \subseteq InitParams
  THEN LET r == User__init__(a, now, env)
       IN [outcome |-> "ok", obj |-> Some(r.self), uuids |-> r.uuids,
           reads |-> r.reads, clock |-> r.clock]
  ELSE [outcome |-> "TypeError", obj |-> None, uuids |-> 0, reads |-> 0, clock |-> now]

\* variant: the part after the last "@" is searched (split("@")[-1])
is_valid_email_last(self) ==
  /\ Contains(self.email, "@")
  /\ LET parts == Split(self.email, "@") IN Contains(parts[Len(parts)], ".")

\* User.is_valid_email
is_valid_email(self) ==
  Contains(self.email, "@") /\ Contains(Split(self.email, "@")[2], ".")

(* ---------------------------- UserUseCase ------------------------------ *)

\* variant: the lookup finds nobody
existing_user_nobody == FALSE

\* variant: the lookup depends on the calls made before (a shared registry)
existing_user_after_first_call == calls # <<>>

\* the stand-in for the lookup of an existing user with the request's email
existing_user == TRUE

EmailInUse == "Email já está em uso"

\* UserUseCase.create_user(request), with the clock at `now`.  The use case has
\* no attributes (its __init__ is `pass`), so the instance is no argument.
create_user(request, now, env) ==
  IF existing_user
  THEN [outcome |-> "ValueError", message |-> EmailInUse, result |-> None,
        uuids |-> 0, reads |-> 0, clock |-> now]
  ELSE LET a == [Defaults EXCEPT !.name = request.name, !.email = request.email]
           r == UserCall({"name", "email", "age"}, a, now, env)
       IN [outcome |-> r.outcome,
           message |-> IF r.outcome = "ok" THEN "" ELSE "unexpected keyword argument 'age'",
           result |-> r.obj, uuids |-> r.uuids, reads |-> r.reads, clock |-> r.clock]

(* ------------------------------ state ---------------------------------- *)

\* position of the next construction or clock read in the caller's program order
NextAt == Len(users) + Len(reads) + 1

\* operations performed so far
Ops == Len(users) + Len(checks) + Len(calls) + Len(reads)

Init ==
  /\ users = <<>>
  /\ checks = <<>>
  /\ calls = <<>>
  /\ reads = <<>>
  /\ clock = 0

\* the environment's answers, constrained so that an answer nobody asks for is fixed
Envs(a) ==
  {e \in [uuid4 : UUIDs, d1 : Delays, d2 : Delays] :
     /\ TruthyStr(a.user_id) => e.uuid4 = "uuid-1"
     /\ TruthyTime(a.created_at) => e.d1 = 0
     /\ TruthyTime(a.updated_at) => e.d2 = 0}

\* the environments in which no time passes during the call
QuietEnvs(a) == {e \in Envs(a) : e.d1 = 0 /\ e.d2 = 0}

\* the keywords a caller must pass to get the arguments a
KwOf(a) == {p \in InitParams : a[p] # Defaults[p]}

\* a caller constructs User(**kw) with the values a for the keywords it passes
NewUser(kw, a, env) ==
  /\ Ops < MaxOps
  /\ Len(users) < MaxUsers
  /\ \A p \in InitParams \ kw : a[p] = Defaults[p]
  /\ LET r == UserCall(kw, a, clock, env)
     IN /\ r.clock <= MaxTime
        /\ users' = Append(users, [a |-> a, outcome |-> r.outcome, obj |-> r.obj,
                                   orig |-> r.obj, uuids |-> r.uuids,
                                   reads |-> r.reads, at |-> NextAt])
        /\ clock' = r.clock
  /\ UNCHANGED <<checks, calls, reads>>

\* variant: the check consumes the email it looks at
IsValidEmailConsuming(i) ==
  /\ Ops < MaxOps
  /\ users[i].outcome = "ok"
  /\ checks' = Append(checks, [user |-> i, result |-> is_valid_email(Val(users[i].obj))])
  /\ users' = [users EXCEPT ![i].obj = Some([Val(@) EXCEPT !.email = <<>>])]
  /\ UNCHANGED <<calls, reads, clock>>

\* a caller calls users[i].is_valid_email()
IsValidEmail(i) ==
  /\ Ops < MaxOps
  /\ users[i].outcome = "ok"
  /\ checks' = Append(checks, [user |-> i, result |-> is_valid_email(Val(users[i].obj))])
  /\ UNCHANGED <<users, calls, reads, clock>>

\* a caller reads the clock: datetime.utcnow()
ReadClock ==
  /\ Ops < MaxOps
  /\ \E d \in Delays :
       /\ clock + d <= MaxTime
       /\ clock' = clock + d
       /\ reads' = Append(reads, [t |-> clock + d, at |-> NextAt])
  /\ UNCHANGED <<users, checks, calls>>

Requests == [name : Names, email : Emails, age : Ages]

\* a caller awaits usecase.create_user(request) on use case uc; the coroutine has
\* no await inside, so it runs to its end in one step
CreateUser(uc, request, env) ==
  /\ Ops < MaxOps
  /\ LET r == create_user(request, clock, env)
     IN /\ r.clock <= MaxTime
        /\ calls' = Append(calls, [uc |-> uc, request |-> request, outcome |-> r.outcome,
                                   message |-> r.message, result |-> r.result,
                                   uuids |-> r.uuids, reads |-> r.reads])
        /\ clock' = r.clock
  /\ UNCHANGED <<users, checks, reads>>

\* every constructor call: each parameter omitted, or supplied from its input set
ArgSpace ==
  [user_id : UserIds, name : Names, email : Emails,
   created_at : ExplicitTimes, updated_at : ExplicitTimes]

\* the constructor calls of the callers in this repository: name and email
\* supplied, the identifier supplied or not, the timestamps omitted
CallerArgSpace ==
  [user_id : UserIds, name : {"Leo"}, email : Emails,
   created_at : {None}, updated_at : {None}]

\* the callers' operations on users and use cases
Next ==
  \/ \E a \in CallerArgSpace : \E env \in Envs(a) : NewUser(KwOf(a), a, env)
  \/ \E i \in DOMAIN users : IsValidEmail(i)
  \/ \E uc \in UseCases, request \in Requests :
       \E env \in QuietEnvs(Defaults) : CreateUser(uc, request, env)

Spec == Init /\ [][Next]_vars

\* one construction, with every combination of arguments, between clock reads
FirstUser ==
  /\ users = <<>>
  /\ \E kw \in SUBSET InitParams, a \in ArgSpace : \E env \in Envs(a) : NewUser(kw, a, env)

NextCtor ==
  \/ FirstUser
  \/ ReadClock

SpecCtor == Init /\ [][NextCtor]_vars

\* one User for every email string up to MaxLen, then email checks on it
EmailUser ==
  /\ users = <<>>
  /\ \E e \in Strings :
       LET a == [Defaults EXCEPT !.name = "Leo", !.email = e]
       IN \E env \in QuietEnvs(a) : NewUser({"name", "email"}, a, env)

NextEmail ==
  \/ EmailUser
  \/ \E i \in DOMAIN users : IsValidEmail(i)

SpecEmail == Init /\ [][NextEmail]_vars

(* ------------------------------ claims --------------------------------- *)

\* the constructions that returned a User
Built == {i \in DOMAIN users : users[i].outcome = "ok"}

\* the User construction i returned, as it is now
Obj(i) == Val(users[i].obj)

\* construction i was given no identifier: omitted (None) or the empty string
NoExplicitId(i) == users[i].a.user_id \in {None, Some("")}

\* construction i was given neither timestamp
NoExplicitTimes(i) == users[i].a.created_at = None /\ users[i].a.updated_at = None

\* C1: every create_user call, whatever its request, fails with ValueError
\* "Email já está em uso" and returns no User; no User is constructed on the
\* way: no identifier is generated and the clock is not read.
C1_AlwaysDuplicateEmail ==
  \A i \in DOMAIN calls :
    /\ calls[i].outcome = "ValueError"
    /\ calls[i].message = EmailInUse
    /\ calls[i].result = None
    /\ calls[i].uuids = 0
    /\ calls[i].reads = 0

\* C1 witness: the request of the test (a well-formed email, age 30) has failed
C1_Witness ==
  \E i \in DOMAIN calls :
    /\ calls[i].request = [name |-> "Leo", email |-> <<"a", "@", ".", "a">>, age |-> 30]
    /\ calls[i].outcome = "ValueError"

\* the part of s after the first occurrence of c, to the end of s
AfterFirst(s, c) == SubSeq(s, FirstIndex(s, c) + 1, Len(s))

\* C2, as claimed: is_valid_email is true exactly when the email contains "@"
\* and everything after the first "@", later "@" included, contains ".".
C2_RestAfterFirstAt ==
  \A k \in DOMAIN checks :
    LET e == Obj(checks[k].user).email
    IN checks[k].result <=> (Contains(e, "@") /\ Contains(AfterFirst(e, "@"), "."))

\* C2, amended: is_valid_email is true exactly when a "." follows the first "@"
\* with no other "@" between the two (the "." lies between the first "@" and the
\* next "@", or the end of the email when there is no other "@").
C2_SegmentAfterFirstAt ==
  \A k \in DOMAIN checks :
    LET e == Obj(checks[k].user).email
    IN checks[k].result <=>
         \E i, j \in 1..Len(e) :
           /\ i < j
           /\ e[i] = "@"
           /\ e[j] = "."
           /\ \A m \in 1..(j - 1) : m # i => e[m] # "@"

\* C2 witness: an email with a "." after its first "@", but only beyond a
\* second "@", was checked and found invalid
C2_Witness ==
  \E k \in DOMAIN checks :
    LET e == Obj(checks[k].user).email
    IN /\ Contains(e, "@")
       /\ Contains(AfterFirst(e, "@"), ".")
       /\ ~checks[k].result

\* C3: every construction call, for every combination of supplied or omitted
\* identifier, name, email, createdAt and updatedAt, yields a User and no error.
C3_ConstructionNeverFails ==
  \A i \in DOMAIN users : users[i].outcome = "ok" /\ users[i].obj # None

\* C3 witness: a construction with an empty name and an empty email has returned
C3_Witness ==
  \E i \in Built : users[i].a.name = "" /\ users[i].a.email = <<>>

\* the email of call i was registered by an earlier successful create_user call
\* (there is no store: a successful creation is the only way to take an email)
AlreadyInUse(i) ==
  \E j \in 1..(i - 1) :
    calls[j].outcome = "ok" /\ calls[j].request.email = calls[i].request.email

\* C4: a create_user call whose email is not already in use succeeds and
\* returns a User with the request's name and email; a call ends in success
\* or in the duplicate-email failure and in nothing else.
C4_SucceedsWhenEmailFree ==
  \A i \in DOMAIN calls :
    /\ calls[i].outcome \in {"ok", "ValueError"}
    /\ ~AlreadyInUse(i) =>
         /\ calls[i].outcome = "ok"
         /\ calls[i].result # None
         /\ Val(calls[i].result).name = calls[i].request.name
         /\ Val(calls[i].result).email = calls[i].request.email

\* C5, as claimed: a construction without an explicit identifier has a
\* non-empty generated identifier, and no two such constructions share one.
C5_GeneratedIdsUnique ==
  \A i \in Built :
    NoExplicitId(i) =>
      /\ Obj(i).user_id # ""
      /\ \A j \in Built : (j # i /\ NoExplicitId(j)) => Obj(j).user_id # Obj(i).user_id

\* C5, amended: a construction without an explicit identifier (omitted or
\* empty) takes its identifier from one call of the random generator, and the
\* identifier is a non-empty string; nothing compares it with the others.
C5_GeneratedIdNonEmpty ==
  \A i \in Built :
    NoExplicitId(i) =>
      /\ users[i].uuids = 1
      /\ Obj(i).user_id \in UUIDs
      /\ Obj(i).user_id # ""

\* C5 witness: one construction with the identifier omitted and one with the
\* empty string, both with a generated identifier
C5_Witness ==
  \E i, j \in Built :
    /\ users[i].a.user_id = None
    /\ users[j].a.user_id = Some("")
    /\ Obj(i).user_id \in UUIDs
    /\ Obj(j).user_id \in UUIDs

\* C6: a construction with an explicit non-empty identifier yields a User with
\* exactly that identifier, and generates none.
C6_ExplicitIdKept ==
  \A i \in Built :
    ~NoExplicitId(i) =>
      /\ Obj(i).user_id = Val(users[i].a.user_id)
      /\ users[i].uuids = 0

\* C6 witness: User(user_id="123", ...) has been constructed
C6_Witness ==
  \E i \in Built : users[i].a.user_id = Some("123") /\ Obj(i).user_id = "123"

\* C7: for a construction with no explicit timestamps, a clock read taken
\* immediately before the call and one taken immediately after it bound both
\* createdAt and updatedAt: before <= createdAt <= after and
\* before <= updatedAt <= after.
C7_TimestampsBetweenReads ==
  \A i \in Built : \A b, c \in DOMAIN reads :
    (NoExplicitTimes(i) /\ reads[b].at + 1 = users[i].at /\ reads[c].at = users[i].at + 1) =>
      /\ reads[b].t <= Obj(i).created_at /\ Obj(i).created_at <= reads[c].t
      /\ reads[b].t <= Obj(i).updated_at /\ Obj(i).updated_at <= reads[c].t

\* C7 witness: a read at a time after the start, then a construction with no
\* timestamps, then a read
C7_Witness ==
  \E i \in Built : \E b, c \in DOMAIN reads :
    /\ NoExplicitTimes(i)
    /\ reads[b].at + 1 = users[i].at
    /\ reads[c].at = users[i].at + 1
    /\ reads[b].t > 0

\* C8: create_user calls are independent: two calls with the same request, on
\* the same or on different use cases, in any order, end the same way, and no
\* call changes a User constructed before.
C8_CallsIndependent ==
  /\ \A i, j \in DOMAIN calls :
       calls[i].request = calls[j].request =>
         /\ calls[i].outcome = calls[j].outcome
         /\ calls[i].message = calls[j].message
         /\ calls[i].result = calls[j].result
  /\ calls # <<>> => \A i \in Built : users[i].obj = users[i].orig

\* C8 witness: the same request was made twice, on two use cases, with a User
\* constructed before
C8_Witness ==
  /\ Built # {}
  /\ \E i, j \in DOMAIN calls :
       i # j /\ calls[i].request = calls[j].request /\ calls[i].uc # calls[j].uc

\* C9: after any sequence of is_valid_email calls (and create_user calls), a
\* User's identifier, name, email, createdAt and updatedAt are as constructed,
\* and repeated is_valid_email calls on it return the same result.
C9_CheckHasNoEffect ==
  /\ \A i \in Built : users[i].obj = users[i].orig
  /\ \A k, m \in DOMAIN checks :
       checks[k].user = checks[m].user => checks[k].result = checks[m].result

\* C9 witness: a User with a non-empty email was checked twice
C9_Witness ==
  \E k, m \in DOMAIN checks :
    k # m /\ checks[k].user = checks[m].user /\ users[checks[k].user].orig # None
          /\ Val(users[checks[k].user].orig).email # <<>>

\* C10: with both timestamps omitted createdAt <= updatedAt (they may differ);
\* a timestamp supplied explicitly is stored unchanged, whatever the other is.
C10_CreatedBeforeUpdated ==
  \A i \in Built :
    /\ NoExplicitTimes(i) => Obj(i).created_at <= Obj(i).updated_at
    /\ users[i].a.created_at # None => Obj(i).created_at = Val(users[i].a.created_at)
    /\ users[i].a.updated_at # None => Obj(i).updated_at = Val(users[i].a.updated_at)

\* C10 witness: both timestamps omitted and createdAt strictly before updatedAt
C10_Witness ==
  \E i \in Built : NoExplicitTimes(i) /\ Obj(i).created_at < Obj(i).updated_at

====
